---- MODULE Spec2Model ----
(***************************************************************************)
(* mono2ledger: the statement processing pipeline of src/mono2ledger.      *)
(*                                                                         *)
(*   SpecMatch   the matcher engine, ConfigModel.match_statement           *)
(*               (config.py), applied to one statement and one rule list.  *)
(*   SpecFormat  format_ledger_transaction (main.py), applied to one       *)
(*               statement, with or without a source statement.            *)
(*   Spec        create_ledger_entries and the printing of _main           *)
(*               (main.py), applied to one fetched list of statements.     *)
(*   SpecScan    get_last_transaction_date (main.py), applied to one       *)
(*               ledger file.                                              *)
(*   SpecFetch   date_range and fetch_statements (main.py) against a bank  *)
(*               that answers each request as it likes.                    *)
(*   SpecImport  two consecutive runs of _main on a growing ledger file.   *)
(*                                                                         *)
(* Text is modelled structurally: a ledger account name is the sequence    *)
(* of its ':'-separated segments, a description is the sequence of its     *)
(* words, and a printed block is the record of its fields.                 *)
(***************************************************************************)
EXTENDS Integers, Sequences, FiniteSets

VARIABLES
    m_statement,    \* match_statement: the statement argument
    m_matchers,     \* ConfigModel.matchers, the ordered rule list
    m_result,       \* what match_statement returned, or the exception it raised
    m_path,         \* the index of the matcher taken at each nesting level
    m_pc,           \* "call" before match_statement, "matched" after it
    f_config,       \* format_ledger_transaction: the configuration in force
    f_statement,    \* its statement argument
    f_source,       \* its source_statement argument, <<>> for None
    f_out,          \* the blocks it yielded, or the exception it raised
    f_pc,           \* "call" before format_ledger_transaction, "formatted" after
    config,         \* _main: the configuration in force
    fetched,        \* the statements as fetch_statements delivered them
    statements,     \* create_ledger_entries: the local list `statements`
    index,          \* create_ledger_entries: the position of the for loop
    ledger_entries, \* what create_ledger_entries has yielded so far
    calls,          \* the calls of format_ledger_transaction made so far
    stdout,         \* the blocks printed, in print order
    pc,             \* _main: "fetched", "loop", "done", "error", "interrupted"
    s_file,         \* get_last_transaction_date: the lines of the ledger file
    s_format,       \* settings.ledger_date_format
    s_default,      \* its default argument
    s_return,       \* the datetime it returned, or the status it exited with
    s_pc,           \* "call" before get_last_transaction_date, then "returned" or "exit"
    q_from,         \* fetch_statements: the from_time _main passes
    q_stack,        \* the suspended generators of fetch_statements, innermost first
    q_log,          \* the requests sent to the bank, with their outcomes
    q_yielded,      \* the statements yielded to _main
    q_sleeps,       \* the calls of time.sleep made by fetch_statements
    q_printed,      \* whether the prints of _main have run
    q_exit,         \* the exit status of the process, -1 while it runs
    q_pc,           \* "accounts", "statements", "fetched", "done", "exit", "raised"
    r_file,         \* the runs of _main: the lines of the ledger file
    r_format,       \* settings.ledger_date_format
    r_bank,         \* the statements the bank holds
    r_run,          \* the number of the run, 1 or 2
    r_now,          \* datetime.now() of the run
    r_from,         \* last_transaction_date of the run, -1 before the scan
    r_requests,     \* the requests for statements of the run
    r_built,        \* the calls and the entries of create_ledger_entries
    r_stdout,       \* the blocks the run has printed
    r_recorded,     \* the statements the run before has emitted a transaction for
    r_exit,         \* the exit status of the run, -1 while it runs
    r_pc            \* "scan", "fetch", "built", "done", "exit", "raised"

vars == <<m_statement, m_matchers, m_result, m_path, m_pc,
          f_config, f_statement, f_source, f_out, f_pc,
          config, fetched, statements, index, ledger_entries, calls, stdout, pc,
          s_file, s_format, s_default, s_return, s_pc,
          q_from, q_stack, q_log, q_yielded, q_sleeps, q_printed, q_exit, q_pc,
          r_file, r_format, r_bank, r_run, r_now, r_from, r_requests, r_built,
          r_stdout, r_recorded, r_exit, r_pc>>

m_vars == <<m_statement, m_matchers, m_result, m_path, m_pc>>
f_vars == <<f_config, f_statement, f_source, f_out, f_pc>>
p_vars == <<config, fetched, statements, index, ledger_entries, calls, stdout, pc>>
s_vars == <<s_file, s_format, s_default, s_return, s_pc>>
\* the variables of the components around the matcher, the formatter and the
\* merge engine
q_vars == <<q_from, q_stack, q_log, q_yielded, q_sleeps, q_printed, q_exit, q_pc>>
r_vars == <<r_file, r_format, r_bank, r_run, r_now, r_from, r_requests, r_built,
            r_stdout, r_recorded, r_exit, r_pc>>
x_vars == <<s_vars, q_vars, r_vars>>

(***************************************************************************)
(* Bounds of the model.                                                    *)
(***************************************************************************)
MaxRules == 2        \* longest top-level rule list of SpecMatch
MaxTime == 3         \* statement timestamps range over 1..MaxTime
MaxStatements == 3   \* longest fetched list of Spec
MaxLines == 4        \* longest ledger file of SpecScan
MaxRequests == 5     \* most requests of a run of SpecFetch

(***************************************************************************)
(* Optional values.  None and the empty value of a type are both falsy in  *)
(* the code's tests (`if x`, `x and ...`, `a if a else b`), which are the  *)
(* only places the code looks at them: both are the empty value here.      *)
(***************************************************************************)
NoString == ""
NoPayee == <<>>
NoAccountName == <<>>
NoStatement == <<>>

(***************************************************************************)
(* config.py: MatcherValue.  fields_set is pydantic's model_fields_set,    *)
(* the fields given explicitly, which model_dump(exclude_unset=True)       *)
(* keeps.  The class has the three fields below and no other.              *)
(***************************************************************************)
MatcherValueFields == {"ignore", "payee", "ledger_account"}

MatcherValue(ignore, payee, ledger_account, fields_set) ==
    [ignore |-> ignore, payee |-> payee, ledger_account |-> ledger_account,
     fields_set |-> fields_set]

DefaultMatcherValue == MatcherValue(FALSE, NoPayee, NoAccountName, {})

\* first | second on the dumped dictionaries, then MatcherValue.model_validate
merge_values(first, second) ==
    [ignore |-> IF "ignore" \in second.fields_set THEN second.ignore ELSE first.ignore,
     payee |-> IF "payee" \in second.fields_set THEN second.payee ELSE first.payee,
     ledger_account |-> IF "ledger_account" \in second.fields_set
                        THEN second.ledger_account ELSE first.ledger_account,
     fields_set |-> first.fields_set \cup second.fields_set]

(***************************************************************************)
(* config.py: MatcherPredicate and Matcher.  An optional predicate field   *)
(* is a set or a sequence that is empty when the field is None or empty.   *)
(* A description pattern is a literal: re.match anchors it at the start    *)
(* of the description, so it matches when it is a prefix of it.            *)
(***************************************************************************)
MatcherPredicate(mcc, description, from_time, to_time) ==
    [mcc |-> mcc, description |-> description,
     from_time |-> from_time, to_time |-> to_time]

Matcher(has_value, value, predicate, submatchers) ==
    [has_value |-> has_value, value |-> value, predicate |-> predicate,
     submatchers |-> submatchers]

IsPrefix(p, d) == Len(p) <= Len(d) /\ SubSeq(d, 1, Len(p)) = p

re_match(pattern, description) == IsPrefix(pattern, description)

\* the mutation of PredicateMatches that forgets the to_time alternative
PredicateMatches_NoToTime(statement, predicate) ==
    \/ predicate.mcc # {} /\ statement.mcc \in predicate.mcc
    \/ predicate.from_time # {} /\ \A t \in predicate.from_time : statement.time >= t
    \/ predicate.description # <<>> /\ re_match(predicate.description, statement.description)

\* the condition of the `if` at config.py:183-197
PredicateMatches(statement, predicate) ==
    \/ predicate.mcc # {} /\ statement.mcc \in predicate.mcc
    \/ predicate.from_time # {} /\ \A t \in predicate.from_time : statement.time >= t
    \/ predicate.to_time # {} /\ \A t \in predicate.to_time : statement.time <= t
    \/ predicate.description # <<>> /\ re_match(predicate.description, statement.description)

\* the exceptions the code can raise
NoneHasNoModelDump == "AttributeError: 'NoneType' object has no attribute 'model_dump'"
MatcherValueHasNoSuffix ==
    "AttributeError: 'MatcherValue' object has no attribute 'source_ledger_account_suffix'"

Returned(value, path) == [err |-> "", value |-> value, path |-> path]
Raised(err, value, path) == [err |-> err, value |-> value, path |-> path]

(***************************************************************************)
(* ConfigModel._match_statement: the for loop from matcher i on.  A        *)
(* matched matcher whose value is None makes _merge_values call            *)
(* None.model_dump, which raises AttributeError.                           *)
(***************************************************************************)
RECURSIVE match_statement_from(_, _, _, _)
match_statement_from(statement, matchers, i, current_value) ==
    IF i > Len(matchers)
    THEN Returned(current_value, <<>>)
    ELSE LET matcher == matchers[i] IN
         IF PredicateMatches(statement, matcher.predicate)
         THEN IF ~matcher.has_value
              THEN Raised(NoneHasNoModelDump, current_value, <<i>>)
              ELSE LET merged == merge_values(current_value, matcher.value) IN
                   IF matcher.submatchers # <<>>
                   THEN LET sub == match_statement_from(statement, matcher.submatchers,
                                                        1, merged)
                        IN  [sub EXCEPT !.path = <<i>> \o sub.path]
                   ELSE Returned(merged, <<i>>)
         ELSE match_statement_from(statement, matchers, i + 1, current_value)

\* ConfigModel.match_statement with default_value=None
match_statement(matchers, statement) ==
    match_statement_from(statement, matchers, 1, DefaultMatcherValue)

(***************************************************************************)
(* main.py: Account and StatementItem, the JSON objects of the bank API.   *)
(* counter_iban is NoString when the key counterIban is absent.            *)
(***************************************************************************)
Account(id, currency_code, cashback_type, iban) ==
    [id |-> id, currency_code |-> currency_code, cashback_type |-> cashback_type,
     iban |-> iban]

StatementItem(id, time, description, mcc, amount, operation_amount, currency_code, cashback_amount, counter_iban, account) ==
    [id |-> id, time |-> time, description |-> description, mcc |-> mcc,
     amount |-> amount, operation_amount |-> operation_amount,
     currency_code |-> currency_code, cashback_amount |-> cashback_amount,
     counter_iban |-> counter_iban, account |-> account]

EUR == 978
UAH == 980
USD == 840
CrossCardMcc == 4829
GroceryMcc == 5411

\* pycountry: currencies.get(numeric=str(code)).alpha_3
alpha_3(code) ==
    CASE code = EUR -> "EUR"
      [] code = UAH -> "UAH"
      [] code = USD -> "USD"

AccountEUR == Account("acc_eur", EUR, "UAH", "iban_eur")
AccountUAH == Account("acc_uah", UAH, "UAH", "iban_uah")

\* fetch_accounts(): the accounts of the client
accounts == <<AccountEUR, AccountUAH>>

(***************************************************************************)
(* config.py: SettingsModel, AccountsModel, ConfigModel.                   *)
(***************************************************************************)
SettingsModel(trim_leading_zeroes, record_cashback) ==
    [transfer_payee |-> <<"Transfer">>,
     trim_leading_zeroes |-> trim_leading_zeroes,
     record_cashback |-> record_cashback,
     cashback_payee |-> <<"Cashback">>,
     cashback_ledger_asset_account |-> <<"Assets", "Mono2ledger", "Cashback">>,
     cashback_ledger_income_account |-> <<"Income", "Mono2ledger", "Cashback">>]

ConfigModel(settings, config_accounts, matchers) ==
    [settings |-> settings, accounts |-> config_accounts, matchers |-> matchers]

\* ConfigModel.match_account: the first configured account with this id
RECURSIVE match_account_from(_, _, _, _)
match_account_from(config_accounts, i, account_id, default) ==
    IF i > Len(config_accounts) THEN default
    ELSE IF config_accounts[i].id = account_id THEN config_accounts[i].ledger_account
    ELSE match_account_from(config_accounts, i + 1, account_id, default)

match_account(cfg, account_id, default) ==
    match_account_from(cfg.accounts, 1, account_id, default)

get_ledger_account_for_account(cfg, account) ==
    match_account(cfg, account.id, <<"Assets", "Mono2ledger", account.id>>)

(***************************************************************************)
(* main.py: format_ledger_transaction.                                     *)
(***************************************************************************)
Abs(n) == IF n < 0 THEN -n ELSE n

\* format_amount: amount / 100, printed as an integer when trim_leading_zeroes
\* is set and the value is whole, and with two decimals otherwise
format_amount(cfg, amount, pad) ==
    [negative |-> amount < 0,
     whole |-> Abs(amount) \div 100,
     decimals |-> IF cfg.settings.trim_leading_zeroes /\ Abs(amount) % 100 = 0
                  THEN <<>> ELSE <<Abs(amount) % 100>>,
     pad |-> pad]

\* the number of minor units a printed amount denotes
MinorUnits(printed) ==
    (IF printed.negative THEN -1 ELSE 1)
    * (printed.whole * 100 + (IF printed.decimals = <<>> THEN 0 ELSE printed.decimals[1]))

DayLength == 2

\* datetime.fromtimestamp(time).strftime(ledger_date_format): the day of time
transaction_date(time) == time \div DayLength

Block(date, payee, to_account, amount, currency, exchange, from_account) ==
    [date |-> date, payee |-> payee, to_account |-> to_account, amount |-> amount,
     currency |-> currency, exchange |-> exchange, from_account |-> from_account]

Yielded(blocks) == [err |-> "", blocks |-> blocks]
Failed(err) == [err |-> err, blocks |-> <<>>]

\* getattr on a MatcherValue: pydantic raises AttributeError for a name that is
\* not a field of the model
HasAttr(name) == name \in MatcherValueFields

\* the mutation of TransferParts that decides the exchange clause on the
\* statement's own amounts instead of the source statement's
TransferParts_OwnAmounts(cfg, statement, source_statement) ==
    [payee |-> cfg.settings.transfer_payee,
     to_account |-> get_ledger_account_for_account(cfg, statement.account),
     from_account |-> get_ledger_account_for_account(cfg, source_statement.account),
     amount |-> statement.amount,
     exchange_amount |-> IF statement.amount # statement.operation_amount
                         THEN source_statement.amount ELSE 0,
     exchange_currency |-> IF statement.amount # statement.operation_amount
                           THEN alpha_3(source_statement.account.currency_code)
                           ELSE NoString]

\* the branch `if source_statement:` (main.py:225-234)
TransferParts(cfg, statement, source_statement) ==
    [payee |-> cfg.settings.transfer_payee,
     to_account |-> get_ledger_account_for_account(cfg, statement.account),
     from_account |-> get_ledger_account_for_account(cfg, source_statement.account),
     amount |-> statement.amount,
     exchange_amount |-> IF source_statement.amount # source_statement.operation_amount
                         THEN source_statement.amount ELSE 0,
     exchange_currency |-> IF source_statement.amount # source_statement.operation_amount
                           THEN alpha_3(source_statement.account.currency_code)
                           ELSE NoString]

\* the branch `else:` (main.py:235-252), match being what match_statement returned
OrdinaryParts(cfg, statement, match) ==
    [payee |-> IF match.payee # NoPayee THEN match.payee ELSE statement.description,
     from_account |-> get_ledger_account_for_account(cfg, statement.account)
                      \o match["source_ledger_account_suffix"],
     to_account |-> IF match.ledger_account # NoAccountName THEN match.ledger_account
                    ELSE <<"Expenses", "Mono2ledger", statement.account.id, statement.id>>,
     amount |-> -statement.amount,
     exchange_amount |-> IF statement.amount # statement.operation_amount
                         THEN statement.amount ELSE 0,
     exchange_currency |-> IF statement.amount # statement.operation_amount
                           THEN alpha_3(statement.currency_code) ELSE NoString]

\* main.py:254-286 without `exchange_amount = -exchange_amount` (main.py:258-259):
\* the mutation of Render that leaves the exchange amount as it is when the
\* accounts are swapped
Render_ExchangeNotNegated(cfg, statement, parts) ==
    LET swap == parts.amount < 0
        to_account == IF swap THEN parts.from_account ELSE parts.to_account
        from_account == IF swap THEN parts.to_account ELSE parts.from_account
        amount == IF swap THEN -parts.amount ELSE parts.amount
        exchange_amount == parts.exchange_amount
        exchange == IF exchange_amount # 0 /\ parts.exchange_currency # NoString
                    THEN <<format_amount(cfg, -exchange_amount, FALSE),
                           parts.exchange_currency>>
                    ELSE <<>>
        date == transaction_date(statement.time)
        transaction == Block(date, parts.payee, to_account,
                             format_amount(cfg, amount, TRUE),
                             alpha_3(statement.currency_code), exchange, from_account)
        cashback == Block(date, cfg.settings.cashback_payee,
                          cfg.settings.cashback_ledger_asset_account,
                          format_amount(cfg, statement.cashback_amount, TRUE),
                          statement.account.cashback_type, <<>>,
                          cfg.settings.cashback_ledger_income_account)
    IN  IF cfg.settings.record_cashback /\ statement.cashback_amount # 0
        THEN <<transaction, cashback>>
        ELSE <<transaction>>

\* main.py:254-286: sign normalisation, the exchange clause, the block and the
\* cashback block
Render(cfg, statement, parts) ==
    LET swap == parts.amount < 0
        to_account == IF swap THEN parts.from_account ELSE parts.to_account
        from_account == IF swap THEN parts.to_account ELSE parts.from_account
        amount == IF swap THEN -parts.amount ELSE parts.amount
        exchange_amount == IF swap THEN -parts.exchange_amount ELSE parts.exchange_amount
        exchange == IF exchange_amount # 0 /\ parts.exchange_currency # NoString
                    THEN <<format_amount(cfg, -exchange_amount, FALSE),
                           parts.exchange_currency>>
                    ELSE <<>>
        date == transaction_date(statement.time)
        transaction == Block(date, parts.payee, to_account,
                             format_amount(cfg, amount, TRUE),
                             alpha_3(statement.currency_code), exchange, from_account)
        cashback == Block(date, cfg.settings.cashback_payee,
                          cfg.settings.cashback_ledger_asset_account,
                          format_amount(cfg, statement.cashback_amount, TRUE),
                          statement.account.cashback_type, <<>>,
                          cfg.settings.cashback_ledger_income_account)
    IN  IF cfg.settings.record_cashback /\ statement.cashback_amount # 0
        THEN <<transaction, cashback>>
        ELSE <<transaction>>

format_ledger_transaction(cfg, statement, source_statement) ==
    IF source_statement # NoStatement
    THEN Yielded(Render(cfg, statement, TransferParts(cfg, statement, source_statement)))
    ELSE LET match == match_statement(cfg.matchers, statement) IN
         IF match.err # "" THEN Failed(match.err)
         ELSE IF ~HasAttr("source_ledger_account_suffix") THEN Failed(MatcherValueHasNoSuffix)
         ELSE Yielded(Render(cfg, statement, OrdinaryParts(cfg, statement, match.value)))

(***************************************************************************)
(* main.py: _main, is_cross_card_statement and create_ledger_entries.      *)
(***************************************************************************)
Contains(words, w) == \E i \in 1..Len(words) : words[i] = w

\* "ФОП" in description or re.match(r".*(чорн|біл)(у|ої).*", description)
CardTypeWords == {"FOP", "chornu", "chornoi", "bilu", "biloi"}

\* re.match(r".*(гривне|євро|долар)(вий|вого).*", description)
CurrencyWords == {"hryvnevyi", "hryvnevoho", "yevrovyi", "yevrovoho",
                  "dolarovyi", "dolarovoho"}

is_cross_card_statement(statement) ==
    IF statement.mcc # CrossCardMcc THEN FALSE
    ELSE IF statement.counter_iban # NoString
    THEN \E i \in 1..Len(accounts) : accounts[i].iban = statement.counter_iban
    ELSE LET has_card_type == \E w \in CardTypeWords : Contains(statement.description, w)
             has_currency == \E w \in CurrencyWords : Contains(statement.description, w)
         IN  has_card_type \/ has_currency

\* the sort key (x.time, x.amount), compared as Python compares tuples
KeyLess(x, y) == x.time < y.time \/ (x.time = y.time /\ x.amount < y.amount)

\* sorted(..., reverse=True) is stable: x goes after every element that is not
\* less than it
RECURSIVE InsertDescending(_, _)
InsertDescending(lst, x) ==
    IF lst = <<>> THEN <<x>>
    ELSE IF KeyLess(Head(lst), x) THEN <<x>> \o lst
    ELSE <<Head(lst)>> \o InsertDescending(Tail(lst), x)

RECURSIVE sorted_reverse(_)
sorted_reverse(lst) ==
    IF lst = <<>> THEN <<>>
    ELSE InsertDescending(sorted_reverse(SubSeq(lst, 1, Len(lst) - 1)), lst[Len(lst)])

\* get_next(lst, index), index counted from 0 as in the code
get_next(lst, i) == IF i + 2 <= Len(lst) THEN lst[i + 2] ELSE NoStatement

Delete(lst, k) == SubSeq(lst, 1, k - 1) \o SubSeq(lst, k + 1, Len(lst))

\* the condition of the while loop (main.py:372-378)
Continues(current_statement, next_statement) ==
    /\ next_statement # NoStatement
    /\ current_statement.operation_amount = -next_statement.operation_amount
    /\ current_statement.currency_code = next_statement.currency_code
    /\ current_statement.mcc = next_statement.mcc

\* the while loop: the list and current_statement when it ends, and the ids of
\* the statements it deleted
RECURSIVE Absorb(_, _, _, _)
Absorb(lst, i, current_statement, consumed) ==
    IF Continues(current_statement, get_next(lst, i))
    THEN Absorb(Delete(lst, i + 2), i, get_next(lst, i),
                Append(consumed, get_next(lst, i).id))
    ELSE [statements |-> lst, current_statement |-> current_statement,
          consumed |-> consumed]

Reverse(s) == [i \in 1..Len(s) |-> s[Len(s) + 1 - i]]

\* one call of format_ledger_transaction: the ids of its arguments (source is
\* NoString without a source_statement), the ids the while loop deleted before
\* it, and what it yielded
Call(statement_id, source_id, consumed, out) ==
    [statement |-> statement_id, source |-> source_id, consumed |-> consumed,
     err |-> out.err, blocks |-> out.blocks]

(***************************************************************************)
(* main.py: get_last_transaction_date.  A line of the ledger file is the   *)
(* sequence of its tokens: a run of blanks, a comment character, a word, a *)
(* text of the shape \d{4}[/|-]\d{2}[/|-]\d{2}, or the final newline.      *)
(***************************************************************************)
Blank == [t |-> " ", year |-> 0, month |-> 0, day |-> 0]
Newline == [t |-> "\n", year |-> 0, month |-> 0, day |-> 0]
Char(c) == [t |-> c, year |-> 0, month |-> 0, day |-> 0]
Word(w) == [t |-> w, year |-> 0, month |-> 0, day |-> 0]

\* the text <year><sep><month><sep><day>, with four, two and two digits
DateText(sep, year, month, day) ==
    [t |-> "date" \o sep, year |-> year, month |-> month, day |-> day]

IsDateText(token) == token.t \in {"date/", "date-", "date|"}

\* the calendar of the model: one year that is not a leap year
EpochYear == 2023
DaysInMonth == <<31, 28, 31, 30, 31, 30, 31, 31, 30, 31, 30, 31>>

RECURSIVE DaysBefore(_)
DaysBefore(month) == IF month <= 1 THEN 0
                     ELSE DaysBefore(month - 1) + DaysInMonth[month - 1]

\* the number of the day <month>/<day> of EpochYear, 0 for 1 January
Ordinal(month, day) == DaysBefore(month) + day - 1

RECURSIVE MonthOf(_, _)
MonthOf(ordinal, month) ==
    IF month >= 12 \/ ordinal < DaysBefore(month + 1) THEN month
    ELSE MonthOf(ordinal, month + 1)

\* a datetime is the number of its time unit since 1 January of EpochYear,
\* 00:00; a day has DayLength units
DateTime(month, day) == Ordinal(month, day) * DayLength

\* settings.ledger_date_format: "%Y/%m/%d" (the default) or "%Y-%m-%d"
Separator(date_format) == IF date_format = "%Y/%m/%d" THEN "/" ELSE "-"

\* datetime.strftime(date_format) of the day of datetime t
strftime(t, date_format) ==
    LET ordinal == t \div DayLength
        month == MonthOf(ordinal, 1)
    IN  DateText(Separator(date_format), EpochYear, month,
                 ordinal - DaysBefore(month) + 1)

\* the header line the program prints: ";; Date and time: %Y-%m-%d %H:%M:%S"
HeaderLine(now) ==
    <<Char(";"), Char(";"), Blank, Word("Date and time:"), Blank,
      strftime(now, "%Y-%m-%d"), Blank, Word("%H:%M:%S"), Newline>>

ValueError == "ValueError"

\* datetime.strptime(text, date_format): ValueError unless the separators are
\* those of the format and the month and the day exist
strptime(text, date_format) ==
    IF /\ text.t = "date" \o Separator(date_format)
       /\ text.year = EpochYear
       /\ text.month \in 1..12
       /\ text.day \in 1..DaysInMonth[text.month]
    THEN [err |-> "", value |-> DateTime(text.month, text.day)]
    ELSE [err |-> ValueError, value |-> 0]

\* line == "comment\n" and line == "end comment\n"
CommentLine == <<Word("comment"), Newline>>
EndCommentLine == <<Word("end"), Blank, Word("comment"), Newline>>

\* comment_pattern.match(line): ^\s*[;#*]+
RECURSIVE SkipBlanks(_, _)
SkipBlanks(line, k) ==
    IF k <= Len(line) /\ line[k].t \in {" ", "\n"} THEN SkipBlanks(line, k + 1) ELSE k

comment_pattern_match(line) ==
    LET k == SkipBlanks(line, 1)
    IN  k <= Len(line) /\ line[k].t \in {";", "#", "*"}

\* pattern.findall(line): the date texts of the line, left to right
findall(line) == SelectSeq(line, IsDateText)

NoResult == <<>>

\* the mutation of ScanLine that keeps the first match instead of the last
ScanLine_KeepFirst(state, line) ==
    LET inside_comment ==
            IF ~state.inside_comment /\ line = CommentLine THEN TRUE
            ELSE IF state.inside_comment /\ line = EndCommentLine THEN FALSE
            ELSE state.inside_comment
        match == findall(line)
    IN  [inside_comment |-> inside_comment,
         result |-> IF /\ ~inside_comment /\ ~comment_pattern_match(line)
                       /\ match # <<>> /\ state.result = NoResult
                    THEN <<match[1]>> ELSE state.result]

\* the mutation of ScanLine that takes a date from a line inside a comment
\* block
ScanLine_InsideCommentToo(state, line) ==
    LET inside_comment ==
            IF ~state.inside_comment /\ line = CommentLine THEN TRUE
            ELSE IF state.inside_comment /\ line = EndCommentLine THEN FALSE
            ELSE state.inside_comment
        match == findall(line)
    IN  [inside_comment |-> inside_comment,
         result |-> IF ~comment_pattern_match(line) /\ match # <<>>
                    THEN <<match[1]>> ELSE state.result]

\* the body of `for line in file.readlines():` (main.py:105-115); result is
\* <<>> for None and <<text>> otherwise
ScanLine(state, line) ==
    LET inside_comment ==
            IF ~state.inside_comment /\ line = CommentLine THEN TRUE
            ELSE IF state.inside_comment /\ line = EndCommentLine THEN FALSE
            ELSE state.inside_comment
        match == findall(line)
    IN  [inside_comment |-> inside_comment,
         result |-> IF ~inside_comment /\ ~comment_pattern_match(line) /\ match # <<>>
                    THEN <<match[1]>> ELSE state.result]

RECURSIVE ScanFrom(_, _, _)
ScanFrom(file, k, state) ==
    IF k > Len(file) THEN state ELSE ScanFrom(file, k + 1, ScanLine(state, file[k]))

\* the for loop of get_last_transaction_date (main.py:102-115)
ScanFile(file) == ScanFrom(file, 1, [inside_comment |-> FALSE, result |-> NoResult]).result

Exit(status) == [exit |-> status, value |-> 0]
Return(value) == [exit |-> 0, value |-> value]

\* the mutation of get_last_transaction_date that falls back to the default
\* when the date text cannot be parsed
get_last_transaction_date_Fallback(file, date_format, default) ==
    LET result == ScanFile(file) IN
    IF result # NoResult
    THEN LET parsed == strptime(result[1], date_format) IN
         IF parsed.err # "" THEN Return(default) ELSE Return(parsed.value)
    ELSE Return(default)

\* get_last_transaction_date(file, default) under settings.ledger_date_format:
\* the datetime it returns, or the status of its exit(1)
get_last_transaction_date(file, date_format, default) ==
    LET result == ScanFile(file) IN
    IF result # NoResult
    THEN LET parsed == strptime(result[1], date_format) IN
         IF parsed.err # "" THEN Exit(1) ELSE Return(parsed.value)
    ELSE Return(default)

(***************************************************************************)
(* main.py: date_range and fetch_statements.  The scheduler's datetimes    *)
(* count ticks, two to a time unit, so that half of a whole number of days *)
(* is a whole number of ticks.                                             *)
(***************************************************************************)
DayTicks == 2 * DayLength

\* timedelta.days of the difference end - start: whole days, rounded down
DeltaDays(start, end) == (end - start) \div DayTicks

\* end - relativedelta(months=1): the same day of the month before, or that
\* month's last day, at the same time of day
MinusMonth(end) ==
    LET ordinal == end \div DayTicks
        month == MonthOf(ordinal, 1)
        day == ordinal - DaysBefore(month) + 1
        before == IF month > 1 THEN month - 1 ELSE 1
        clipped == IF day > DaysInMonth[before] THEN DaysInMonth[before] ELSE day
    IN  Ordinal(before, clipped) * DayTicks + (end % DayTicks)

\* date_range(start, end, relativedelta(months=1)): `end - delta` is start
RECURSIVE date_range(_, _)
date_range(start, end) ==
    IF DeltaDays(start, end) > 30
    THEN Append(date_range(start, MinusMonth(end)), <<start, end>>)
    ELSE <<<<start, end>>>>

\* list(itertools.product(accounts, intervals)): account-major order
Product(accs, intervals) ==
    [k \in 1..(Len(accs) * Len(intervals)) |->
        [account |-> accs[((k - 1) \div Len(intervals)) + 1].id,
         interval |-> intervals[((k - 1) % Len(intervals)) + 1]]]

\* one activation of the generator fetch_statements(accounts, from_time,
\* to_time): its arguments, its combinations, the position i of its for loop,
\* its local `response` (the request that bound it, 0 while unbound), where it
\* is suspended, and what made the call: _main, the retry after a 429 or the
\* halving of an interval, with the request and the interval being handled
Cause(kind, request, interval) == [kind |-> kind, request |-> request, interval |-> interval]

Frame(from_time, to_time, cause) ==
    [from_time |-> from_time, to_time |-> to_time,
     combinations |-> Product(accounts, date_range(from_time, to_time)),
     i |-> 1, response |-> 0, at |-> "fetch", cause |-> cause]

\* the responses of the bank: fewer than 500 items (one item here), 500 items
\* or more, HTTP 429, another HTTP error status
Outcomes == {"items", "truncated", "429", "500"}

\* `except HTTPError as e: if e.code == 429:` (main.py:170-185), with every
\* error retried: the mutation of OnHTTPError that never exits
OnHTTPError_AlwaysRetry(code) == "retry"

\* `except HTTPError as e: if e.code == 429:` (main.py:170-185)
OnHTTPError(code) == IF code = "429" THEN "retry" ELSE "exit"

UnboundLocalError == "UnboundLocalError: local variable 'response'"

\* `time.sleep(60)` before the retry only (main.py:177): the mutation of sleep
\* that does not wait after a response that was fetched
sleep_BackoffOnly(line, after) ==
    [seconds |-> IF line = 177 THEN 60 ELSE 0, line |-> line, after |-> after]

\* `time.sleep(60)` at main.py:177 (before the retry) and at main.py:195
\* (after a response was fetched), with the number of requests made so far
sleep(line, after) == [seconds |-> 60, line |-> line, after |-> after]

Push(stack, frame) == <<frame>> \o stack

\* main.py:186-204 in the frame on top of the stack, for the combination at
\* its position i and its local `response`: the stack, the items yielded, the
\* sleeps made and the error raised
AfterFetch(stack, log, yielded) ==
    LET frame == stack[1]
        combination == frame.combinations[frame.i]
        from == combination.interval[1]
        to == combination.interval[2]
        \* timedelta(days=(_from_time - _to_time).days / 2)
        period == (DeltaDays(to, from) * DayTicks) \div 2
        cause == Cause("halving", frame.response, combination.interval)
    IN  IF frame.response = 0
        THEN [stack |-> stack, yielded |-> yielded, sleeps |-> <<>>,
              err |-> UnboundLocalError]
        ELSE IF log[frame.response].outcome = "items"
        THEN [stack |-> <<[frame EXCEPT !.i = @ + 1, !.at = "fetch"]>> \o Tail(stack),
              yielded |-> Append(yielded, [request |-> frame.response,
                                           account |-> combination.account]),
              sleeps |-> <<sleep(195, Len(log))>>, err |-> ""]
        ELSE [stack |-> Push(<<[frame EXCEPT !.at = "first half"]>> \o Tail(stack),
                             Frame(from, to - period, cause)),
              yielded |-> yielded, sleeps |-> <<sleep(195, Len(log))>>, err |-> ""]

\* a generator that has run through its combinations returns to the frame
\* that is suspended in `yield from`: after the retry (main.py:178) that frame
\* goes on at main.py:186, after the first half (main.py:203) it calls the
\* second half (main.py:204), after the second half it takes its next
\* combination
AfterReturn(stack, log, yielded) ==
    LET frame == stack[1]
        combination == frame.combinations[frame.i]
        from == combination.interval[1]
        to == combination.interval[2]
        period == (DeltaDays(to, from) * DayTicks) \div 2
        cause == Cause("halving", frame.response, combination.interval)
    IN  IF frame.at = "retry" THEN AfterFetch(stack, log, yielded)
        ELSE IF frame.at = "first half"
        THEN [stack |-> Push(<<[frame EXCEPT !.at = "second half"]>> \o Tail(stack),
                             Frame(from + period, to, cause)),
              yielded |-> yielded, sleeps |-> <<>>, err |-> ""]
        ELSE [stack |-> <<[frame EXCEPT !.i = @ + 1, !.at = "fetch"]>> \o Tail(stack),
              yielded |-> yielded, sleeps |-> <<>>, err |-> ""]

(***************************************************************************)
(* main.py: _main from the ledger file to the printed output.              *)
(***************************************************************************)
\* list(create_ledger_entries(statements)) from position index of the sorted
\* list on: the calls of format_ledger_transaction made and the entries
\* yielded, up to the first call that raises
RECURSIVE create_ledger_entries(_, _, _, _, _)
create_ledger_entries(cfg, lst, i, made, entries) ==
    IF i >= Len(lst) THEN [err |-> "", calls |-> made, entries |-> entries]
    ELSE LET statement == lst[i + 1]
             cross == is_cross_card_statement(statement)
             absorbed == IF cross THEN Absorb(lst, i, statement, <<>>)
                         ELSE [statements |-> lst, current_statement |-> NoStatement,
                               consumed |-> <<>>]
             out == format_ledger_transaction(cfg, statement, absorbed.current_statement)
             call == Call(statement.id,
                          IF cross THEN absorbed.current_statement.id ELSE NoString,
                          absorbed.consumed, out)
         IN  IF out.err # ""
             THEN [err |-> out.err, calls |-> Append(made, call), entries |-> entries]
             ELSE create_ledger_entries(cfg, absorbed.statements, i + 1,
                                        Append(made, call), entries \o Reverse(out.blocks))

\* what the bank answers to /personal/statement/{account}/{from}/{to}, the
\* interval counted in ticks
statement_response(bank, account, interval) ==
    SelectSeq(bank, LAMBDA s : /\ s.account.id = account
                               /\ interval[1] <= 2 * s.time
                               /\ 2 * s.time <= interval[2])

\* list(fetch_statements(accounts, from_time, to_time)) when the bank answers
\* every request with fewer than 500 items: the requests and the statements
RECURSIVE fetch_all(_, _, _, _)
fetch_all(bank, combinations, k, got) ==
    IF k > Len(combinations) THEN got
    ELSE fetch_all(bank, combinations, k + 1,
                   got \o statement_response(bank, combinations[k].account,
                                             combinations[k].interval))

\* the lines of the output of _main (main.py:394-400) as they stand in a
\* ledger file: the header, three lines and a blank line for each block, the
\* footer
OutputLines(now, blocks, date_format) ==
    <<<<Char(";"), Char(";"), Blank, Word("Begin mono2ledger output"), Newline>>,
      HeaderLine(now)>>
    \o [k \in 1..(4 * Len(blocks)) |->
          IF k % 4 = 1
          THEN <<strftime(blocks[(k + 3) \div 4].date * DayLength, date_format), Blank,
                 Word("payee"), Newline>>
          ELSE IF k % 4 = 0 THEN <<Newline>>
          ELSE <<Blank, Word("posting"), Newline>>]
    \o <<<<Char(";"), Char(";"), Blank, Word("End mono2ledger output"), Newline>>>>

(***************************************************************************)
(* Each specification runs one component; the variables of the other       *)
(* components stay idle.                                                   *)
(***************************************************************************)
IdleMatch ==
    /\ m_statement = "idle" /\ m_matchers = "idle" /\ m_result = "idle"
    /\ m_path = "idle" /\ m_pc = "idle"

IdleFormat ==
    /\ f_config = "idle" /\ f_statement = "idle" /\ f_source = "idle"
    /\ f_out = "idle" /\ f_pc = "idle"

IdlePipeline ==
    /\ config = "idle" /\ fetched = "idle" /\ statements = "idle" /\ index = "idle"
    /\ ledger_entries = "idle" /\ calls = "idle" /\ stdout = "idle" /\ pc = "idle"

IdleScan ==
    /\ s_file = "idle" /\ s_format = "idle" /\ s_default = "idle"
    /\ s_return = "idle" /\ s_pc = "idle"

IdleFetch ==
    /\ q_from = "idle" /\ q_stack = "idle" /\ q_log = "idle" /\ q_yielded = "idle"
    /\ q_sleeps = "idle"
    /\ q_printed = "idle" /\ q_exit = "idle" /\ q_pc = "idle"

IdleImport ==
    /\ r_file = "idle" /\ r_format = "idle" /\ r_bank = "idle" /\ r_run = "idle"
    /\ r_now = "idle" /\ r_from = "idle" /\ r_requests = "idle" /\ r_built = "idle"
    /\ r_stdout = "idle" /\ r_recorded = "idle" /\ r_exit = "idle" /\ r_pc = "idle"

IdleOthers == IdleScan /\ IdleFetch /\ IdleImport

(***************************************************************************)
(* SpecMatch: match_statement on one statement and one rule list.          *)
(***************************************************************************)
Descriptions == {<<"Silpo">>, <<"Silpo", "Market">>, <<"Nova", "Poshta">>}

MatchStatements ==
    {StatementItem("s1", t, d, m, -500, -500, UAH, 0, NoString, AccountUAH) :
        t \in 1..MaxTime, d \in Descriptions, m \in {GroceryMcc, CrossCardMcc}}

Predicates ==
    {MatcherPredicate({}, <<>>, {}, {}),
     MatcherPredicate({GroceryMcc}, <<>>, {}, {}),
     MatcherPredicate({}, <<"Silpo">>, {}, {}),
     MatcherPredicate({}, <<>>, {2}, {}),
     MatcherPredicate({}, <<>>, {}, {2}),
     MatcherPredicate({GroceryMcc}, <<"Nova">>, {}, {})}

Values ==
    {MatcherValue(FALSE, NoPayee, <<"Expenses", "Food">>, {"ledger_account"}),
     MatcherValue(FALSE, <<"Shop">>, NoAccountName, {"payee"})}

LeafMatchers ==
    {Matcher(TRUE, v, p, <<>>) : v \in Values, p \in Predicates}
    \cup {Matcher(FALSE, DefaultMatcherValue, p, <<>>) : p \in Predicates}

SubMatchers ==
    {Matcher(TRUE, MatcherValue(FALSE, NoPayee, <<"Expenses", "Sub">>, {"ledger_account"}),
             p, <<>>) :
        p \in {MatcherPredicate({}, <<"Silpo", "Market">>, {}, {}),
               MatcherPredicate({}, <<>>, {2}, {})}}

GroupMatchers ==
    {Matcher(TRUE, v, MatcherPredicate({GroceryMcc}, <<>>, {}, {}), <<sub>>) :
        v \in Values, sub \in SubMatchers}

Matchers == LeafMatchers \cup GroupMatchers

RuleLists == UNION {[1..n -> Matchers] : n \in 0..MaxRules}

InitMatch ==
    /\ m_statement \in MatchStatements
    /\ m_matchers \in RuleLists
    /\ m_result = Returned(DefaultMatcherValue, <<>>)
    /\ m_path = <<>>
    /\ m_pc = "call"
    /\ IdleFormat
    /\ IdlePipeline
    /\ IdleOthers

\* config.match_statement(statement)
MatchStatement ==
    /\ m_pc = "call"
    /\ LET r == match_statement(m_matchers, m_statement) IN
       /\ m_result' = [err |-> r.err, value |-> r.value]
       /\ m_path' = r.path
    /\ m_pc' = "matched"
    /\ UNCHANGED <<m_statement, m_matchers, f_vars, p_vars, x_vars>>

NextMatch == MatchStatement

SpecMatch == InitMatch /\ [][NextMatch]_vars

(***************************************************************************)
(* SpecFormat: format_ledger_transaction on one statement.                 *)
(***************************************************************************)
Amounts == {-500, -150, 0, 150, 1000}

FormatStatements ==
    {StatementItem("s1", 1, <<"Silpo">>, GroceryMcc, a, o, c, cb, NoString, acc) :
        a \in Amounts, o \in Amounts, c \in {UAH, USD}, cb \in {0, 50},
        acc \in {AccountEUR, AccountUAH}}

SourceStatements ==
    {StatementItem("s2", 1, <<"Na", "hryvnevyi", "rakhunok", "FOP">>, CrossCardMcc,
                   ao[1], ao[2], UAH, 0, NoString, acc) :
        ao \in {<<-500, -500>>, <<-150, -500>>, <<150, 500>>, <<0, -500>>},
        acc \in {AccountEUR, AccountUAH}}

FormatRuleLists ==
    {<<>>,
     <<Matcher(TRUE, MatcherValue(FALSE, <<"Shop">>, <<"Expenses", "Food">>,
                                  {"payee", "ledger_account"}),
               MatcherPredicate({GroceryMcc}, <<>>, {}, {}), <<>>)>>,
     <<Matcher(FALSE, DefaultMatcherValue,
               MatcherPredicate({GroceryMcc}, <<>>, {}, {}), <<>>)>>}

ConfiguredAccounts == <<[id |-> "acc_uah", ledger_account |-> <<"Assets", "Card">>]>>

FormatConfigs ==
    {ConfigModel(SettingsModel(trim, cashback), ConfiguredAccounts, rules) :
        trim \in BOOLEAN, cashback \in BOOLEAN, rules \in FormatRuleLists}

InitFormat ==
    /\ f_config \in FormatConfigs
    /\ f_statement \in FormatStatements
    /\ f_source \in {NoStatement} \cup SourceStatements
    /\ f_out = Yielded(<<>>)
    /\ f_pc = "call"
    /\ IdleMatch
    /\ IdlePipeline
    /\ IdleOthers

\* list(format_ledger_transaction(statement, source_statement))
FormatLedgerTransaction ==
    /\ f_pc = "call"
    /\ f_out' = format_ledger_transaction(f_config, f_statement, f_source)
    /\ f_pc' = "formatted"
    /\ UNCHANGED <<f_config, f_statement, f_source, m_vars, p_vars, x_vars>>

NextFormat == FormatLedgerTransaction

SpecFormat == InitFormat /\ [][NextFormat]_vars

(***************************************************************************)
(* Spec: _main from the fetched statements to the printed output.          *)
(***************************************************************************)
\* what a statement is apart from its id and its time
Templates ==
    {\* leaves the EUR account for the client's UAH account, with a conversion
     StatementItem("", 0, <<"Na", "hryvnevyi", "rakhunok", "FOP">>, CrossCardMcc,
                   -50, -100, UAH, 0, "iban_uah", AccountEUR),
     \* arrives on the UAH account from an account of the client
     StatementItem("", 0, <<"Z", "hryvnevoho", "rakhunku", "FOP">>, CrossCardMcc,
                   100, 100, UAH, 0, NoString, AccountUAH),
     \* leaves the UAH account for another account of the client
     StatementItem("", 0, <<"Na", "chornu", "kartku">>, CrossCardMcc,
                   -100, -100, UAH, 0, NoString, AccountUAH),
     \* leaves the UAH account for a foreign card
     StatementItem("", 0, <<"Olena">>, CrossCardMcc,
                   -100, -100, UAH, 0, NoString, AccountUAH),
     \* a purchase
     StatementItem("", 0, <<"Silpo">>, GroceryMcc,
                   -100, -100, UAH, 50, NoString, AccountUAH)}

StatementIds == <<"s1", "s2", "s3", "s4", "s5", "s6">>

\* the lists of n statements fetch_statements can deliver, in any order
FetchedLists(n) ==
    {[i \in 1..n |-> [tt[i][1] EXCEPT !.id = StatementIds[i], !.time = tt[i][2]]] :
        tt \in [1..n -> Templates \X (1..MaxTime)]}

PipelineConfig ==
    ConfigModel(SettingsModel(TRUE, TRUE), <<>>,
                <<Matcher(TRUE, MatcherValue(FALSE, NoPayee, <<"Expenses", "Food">>,
                                             {"ledger_account"}),
                          MatcherPredicate({GroceryMcc}, <<>>, {}, {}), <<>>)>>)

Init ==
    /\ config = PipelineConfig
    /\ \E n \in 0..MaxStatements : fetched \in FetchedLists(n)
    /\ statements = <<>>
    /\ index = 0
    /\ ledger_entries = <<>>
    /\ calls = <<>>
    /\ stdout = <<>>
    /\ pc = "fetched"
    /\ IdleMatch
    /\ IdleFormat
    /\ IdleOthers

\* create_ledger_entries up to its for loop: statements = sorted(...)
SortStatements ==
    /\ pc = "fetched"
    /\ statements' = sorted_reverse(fetched)
    /\ index' = 0
    /\ pc' = "loop"
    /\ UNCHANGED <<config, fetched, ledger_entries, calls, stdout, m_vars, f_vars, x_vars>>

\* one iteration of the for loop of create_ledger_entries (main.py:368-389)
Iterate ==
    /\ pc = "loop"
    /\ index < Len(statements)
    /\ LET statement == statements[index + 1]
           cross == is_cross_card_statement(statement)
           absorbed == IF cross THEN Absorb(statements, index, statement, <<>>)
                       ELSE [statements |-> statements,
                             current_statement |-> NoStatement, consumed |-> <<>>]
           out == format_ledger_transaction(config, statement, absorbed.current_statement)
       IN  /\ statements' = absorbed.statements
           /\ calls' = Append(calls,
                              Call(statement.id,
                                   IF cross THEN absorbed.current_statement.id ELSE NoString,
                                   absorbed.consumed, out))
           /\ IF out.err # ""
              THEN /\ pc' = "error"
                   /\ UNCHANGED <<index, ledger_entries>>
              ELSE /\ pc' = "loop"
                   /\ index' = index + 1
                   /\ ledger_entries' = ledger_entries \o Reverse(out.blocks)
    /\ UNCHANGED <<config, fetched, stdout, m_vars, f_vars, x_vars>>

\* the end of the for loop and the three prints of _main (main.py:392-400)
WriteOutput ==
    /\ pc = "loop"
    /\ index >= Len(statements)
    /\ stdout' = Reverse(ledger_entries)
    /\ pc' = "done"
    /\ UNCHANGED <<config, fetched, statements, index, ledger_entries, calls,
                   m_vars, f_vars, x_vars>>

\* KeyboardInterrupt while _main runs: main() exits with the message
\* "Received interrupt, exiting" (main.py:403-409)
Interrupt ==
    /\ pc \in {"fetched", "loop"}
    /\ pc' = "interrupted"
    /\ UNCHANGED <<config, fetched, statements, index, ledger_entries, calls, stdout,
                   m_vars, f_vars, x_vars>>

Next == SortStatements \/ Iterate \/ WriteOutput \/ Interrupt

Spec == Init /\ [][Next]_vars

(***************************************************************************)
(* SpecScan: get_last_transaction_date on one ledger file.                 *)
(***************************************************************************)
DateFormats == {"%Y/%m/%d", "%Y-%m-%d"}

ScanDates ==
    {DateText("/", EpochYear, 1, 30), DateText("/", EpochYear, 1, 31),
     DateText("/", EpochYear, 2, 1), DateText("-", EpochYear, 2, 2),
     DateText("/", EpochYear, 2, 30)}

ScanLines ==
    {CommentLine, EndCommentLine}
    \cup {<<d, Blank, Word("Silpo"), Newline>> : d \in ScanDates}
    \cup {HeaderLine(DateTime(2, 3)),
          <<Blank, Char("#"), Blank, DateText("/", EpochYear, 2, 4), Newline>>,
          <<DateText("/", EpochYear, 1, 31), Char("="), DateText("/", EpochYear, 2, 5),
            Blank, Word("Silpo"), Newline>>}

LedgerFiles == UNION {[1..n -> ScanLines] : n \in 0..MaxLines}

InitScan ==
    /\ s_file \in LedgerFiles
    /\ s_format \in DateFormats
    /\ s_default = DateTime(1, 1) + 1
    /\ s_return = Return(0)
    /\ s_pc = "call"
    /\ IdleMatch /\ IdleFormat /\ IdlePipeline /\ IdleFetch /\ IdleImport

\* get_last_transaction_date(file, default)
GetLastTransactionDate ==
    /\ s_pc = "call"
    /\ s_return' = get_last_transaction_date(s_file, s_format, s_default)
    /\ s_pc' = IF s_return'.exit # 0 THEN "exit" ELSE "returned"
    /\ UNCHANGED <<s_file, s_format, s_default, m_vars, f_vars, p_vars, q_vars, r_vars>>

NextScan == GetLastTransactionDate

SpecScan == InitScan /\ [][NextScan]_vars

(***************************************************************************)
(* SpecFetch: _main from fetch_accounts to the prints, the bank answering  *)
(* each request as it likes.                                               *)
(***************************************************************************)
\* datetime.now(): 15 August, half a day after midnight
Now == DateTime(8, 15) * 2 + DayLength

\* last_transaction_date: the default now - timedelta(days=30), or the
\* midnight of the last date of the ledger file
StartTimes ==
    {Now - 30 * DayTicks, DateTime(8, 10) * 2, DateTime(7, 15) * 2, DateTime(7, 1) * 2}

InitFetch ==
    /\ q_from \in StartTimes
    /\ q_stack = <<>>
    /\ q_log = <<>>
    /\ q_yielded = <<>>
    /\ q_sleeps = <<>>
    /\ q_printed = FALSE
    /\ q_exit = -1
    /\ q_pc = "accounts"
    /\ IdleMatch /\ IdleFormat /\ IdlePipeline /\ IdleScan /\ IdleImport

\* accounts = fetch_accounts(), where an HTTPError is not caught, and
\* statements = fetch_statements(accounts, last_transaction_date, now)
FetchAccounts ==
    /\ q_pc = "accounts"
    /\ \E outcome \in {"accounts", "429", "500"} :
          /\ q_log' = <<[account |-> NoString, interval |-> <<>>, outcome |-> outcome,
                         cause |-> Cause("main", 0, <<>>)]>>
          /\ IF outcome = "accounts"
             THEN /\ q_stack' = <<Frame(q_from, Now, Cause("main", 0, <<>>))>>
                  /\ q_pc' = "statements"
                  /\ UNCHANGED q_exit
             ELSE /\ q_pc' = "raised"
                  /\ q_exit' = 1
                  /\ UNCHANGED q_stack
    /\ UNCHANGED <<q_from, q_yielded, q_sleeps, q_printed, m_vars, f_vars, p_vars, s_vars, r_vars>>

\* one request of the for loop of fetch_statements and what follows it up to
\* the next request, call or return (main.py:161-204)
Fetch ==
    /\ q_pc = "statements"
    /\ q_stack # <<>>
    /\ q_stack[1].i <= Len(q_stack[1].combinations)
    /\ Len(q_log) < MaxRequests
    /\ \E outcome \in Outcomes :
          LET frame == q_stack[1]
              combination == frame.combinations[frame.i]
              request == Len(q_log) + 1
              log == Append(q_log, [account |-> combination.account,
                                    interval |-> combination.interval,
                                    outcome |-> outcome, cause |-> frame.cause])
          IN  /\ q_log' = log
              /\ IF outcome \in {"items", "truncated"}
                 THEN LET after == AfterFetch(<<[frame EXCEPT !.response = request]>>
                                              \o Tail(q_stack), log, q_yielded)
                      IN  /\ q_stack' = after.stack
                          /\ q_yielded' = after.yielded
                          /\ q_sleeps' = q_sleeps \o after.sleeps
                          /\ UNCHANGED <<q_pc, q_exit>>
                 ELSE IF OnHTTPError(outcome) = "retry"
                 THEN /\ q_stack' = Push(<<[frame EXCEPT !.at = "retry"]>> \o Tail(q_stack),
                                         Frame(frame.from_time, frame.to_time,
                                               Cause("retry", request, combination.interval)))
                      /\ q_sleeps' = Append(q_sleeps, sleep(177, request))
                      /\ UNCHANGED <<q_yielded, q_pc, q_exit>>
                 ELSE /\ q_pc' = "exit"
                      /\ q_exit' = 1
                      /\ UNCHANGED <<q_stack, q_yielded, q_sleeps>>
    /\ UNCHANGED <<q_from, q_printed, m_vars, f_vars, p_vars, s_vars, r_vars>>

\* the for loop of the top generator is over: it returns to the generator
\* that called it, or, being the one _main iterates, ends the iteration
ReturnFromFetch ==
    /\ q_pc = "statements"
    /\ q_stack # <<>>
    /\ q_stack[1].i > Len(q_stack[1].combinations)
    /\ IF Len(q_stack) = 1
       THEN /\ q_stack' = <<>>
            /\ q_pc' = "fetched"
            /\ UNCHANGED <<q_yielded, q_sleeps, q_exit>>
       ELSE LET after == AfterReturn(Tail(q_stack), q_log, q_yielded)
            IN  /\ q_stack' = after.stack
                /\ q_yielded' = after.yielded
                /\ q_sleeps' = q_sleeps \o after.sleeps
                /\ q_pc' = IF after.err # "" THEN "raised" ELSE "statements"
                /\ q_exit' = IF after.err # "" THEN 1 ELSE q_exit
    /\ UNCHANGED <<q_from, q_log, q_printed, m_vars, f_vars, p_vars, s_vars, r_vars>>

\* the statements are all fetched: the entries are built and printed
\* (main.py:392-400)
PrintFetched ==
    /\ q_pc = "fetched"
    /\ q_printed' = TRUE
    /\ q_exit' = 0
    /\ q_pc' = "done"
    /\ UNCHANGED <<q_from, q_stack, q_log, q_yielded, q_sleeps, m_vars, f_vars, p_vars, s_vars, r_vars>>

NextFetch == FetchAccounts \/ Fetch \/ ReturnFromFetch \/ PrintFetched

SpecFetch == InitFetch /\ [][NextFetch]_vars

(***************************************************************************)
(* SpecImport: two runs of _main, the second on the ledger file to which   *)
(* the output of the first has been appended.                              *)
(***************************************************************************)
\* a transfer arriving from another account of the client
IncomingTransfer(id, time) ==
    StatementItem(id, time, <<"Z", "hryvnevoho", "rakhunku", "FOP">>, CrossCardMcc,
                  100, 100, UAH, 0, NoString, AccountUAH)

\* the statements the bank may hold: on 14 August, at 00:00 of 15 August, at
\* the time of the first run, and between the runs
BankStatements ==
    <<IncomingTransfer("b1", DateTime(8, 14)), IncomingTransfer("b2", DateTime(8, 15)),
      IncomingTransfer("b3", DateTime(8, 15) + 1), IncomingTransfer("b4", DateTime(8, 16))>>

\* the ledger file before the first run
InitialFiles ==
    {<<>>,
     <<<<DateText("/", EpochYear, 8, 10), Blank, Word("Silpo"), Newline>>>>,
     <<<<DateText("-", EpochYear, 8, 10), Blank, Word("Silpo"), Newline>>>>,
     <<<<DateText("/", EpochYear, 8, 10), Blank, Word("Silpo"), Newline>>,
       <<DateText("/", EpochYear, 8, 32), Blank, Word("Silpo"), Newline>>>>}

ImportConfig == ConfigModel(SettingsModel(TRUE, TRUE), <<>>, <<>>)

InitImport ==
    /\ r_file \in InitialFiles
    /\ r_format \in DateFormats
    /\ \E ids \in SUBSET {"b1", "b2", "b3", "b4"} :
          r_bank = SelectSeq(BankStatements, LAMBDA s : s.id \in ids)
    /\ r_run = 1
    /\ r_now = DateTime(8, 15) + 1
    /\ r_from = -1
    /\ r_requests = <<>>
    /\ r_built = [err |-> "", calls |-> <<>>, entries |-> <<>>]
    /\ r_stdout = <<>>
    /\ r_recorded = {}
    /\ r_exit = -1
    /\ r_pc = "scan"
    /\ IdleMatch /\ IdleFormat /\ IdlePipeline /\ IdleScan /\ IdleFetch

\* last_transaction_date = get_last_transaction_date(args.input,
\* now - timedelta(days=30)) (main.py:328-331)
ScanLedger ==
    /\ r_pc = "scan"
    /\ LET last == get_last_transaction_date(r_file, r_format, r_now - 30 * DayLength)
       IN  IF last.exit # 0
           THEN /\ r_pc' = "exit"
                /\ r_exit' = last.exit
                /\ UNCHANGED r_from
           ELSE /\ r_pc' = "fetch"
                /\ r_from' = last.value
                /\ UNCHANGED r_exit
    /\ UNCHANGED <<r_file, r_format, r_bank, r_run, r_now, r_requests, r_built,
                   r_stdout, r_recorded, m_vars, f_vars, p_vars, s_vars, q_vars>>

\* the statements are fetched and the entries built (main.py:333-392)
FetchAndBuild ==
    /\ r_pc = "fetch"
    /\ LET combinations == Product(accounts, date_range(2 * r_from, 2 * r_now))
           built == create_ledger_entries(
                        ImportConfig,
                        sorted_reverse(fetch_all(r_bank, combinations, 1, <<>>)),
                        0, <<>>, <<>>)
       IN  /\ r_requests' = combinations
           /\ r_built' = built
           /\ r_pc' = IF built.err # "" THEN "raised" ELSE "built"
           /\ r_exit' = IF built.err # "" THEN 1 ELSE r_exit
    /\ UNCHANGED <<r_file, r_format, r_bank, r_run, r_now, r_from, r_stdout,
                   r_recorded, m_vars, f_vars, p_vars, s_vars, q_vars>>

\* the three prints of _main (main.py:394-400)
PrintEntries ==
    /\ r_pc = "built"
    /\ r_stdout' = Reverse(r_built.entries)
    /\ r_exit' = 0
    /\ r_pc' = "done"
    /\ UNCHANGED <<r_file, r_format, r_bank, r_run, r_now, r_from, r_requests, r_built,
                   r_recorded, m_vars, f_vars, p_vars, s_vars, q_vars>>

\* the output of the first run is appended to the ledger file, and the
\* program is run again a day later
RunAgain ==
    /\ r_pc = "done"
    /\ r_run = 1
    /\ r_file' = r_file \o OutputLines(r_now, r_stdout, r_format)
    /\ r_recorded' = {r_built.calls[k].statement : k \in 1..Len(r_built.calls)}
                     \cup {r_built.calls[k].source : k \in 1..Len(r_built.calls)}
    /\ r_run' = 2
    /\ r_now' = r_now + DayLength
    /\ r_from' = -1
    /\ r_requests' = <<>>
    /\ r_built' = [err |-> "", calls |-> <<>>, entries |-> <<>>]
    /\ r_stdout' = <<>>
    /\ r_exit' = -1
    /\ r_pc' = "scan"
    /\ UNCHANGED <<r_format, r_bank, m_vars, f_vars, p_vars, s_vars, q_vars>>

NextImport == ScanLedger \/ FetchAndBuild \/ PrintEntries \/ RunAgain

SpecImport == InitImport /\ [][NextImport]_vars

(***************************************************************************)
(* The matcher engine (SpecMatch).                                         *)
(***************************************************************************)
\* the index of the first matcher of the list that satisfies P, 0 when none does
FirstIndex(matchers, P(_)) ==
    IF \E i \in 1..Len(matchers) : P(matchers[i])
    THEN CHOOSE i \in 1..Len(matchers) :
            P(matchers[i]) /\ \A j \in 1..(i - 1) : ~P(matchers[j])
    ELSE 0

\* the action of one rule: its value over the defaults
ActionOf(matcher) == merge_values(DefaultMatcherValue, matcher.value)

\* C1: match_statement returns the action of the first rule, in declaration
\* order, whose predicate matches the statement, or the default action when
\* no rule matches.
C1_FirstMatchingRuleWins ==
    m_pc = "matched" =>
        LET Matches(matcher) == PredicateMatches(m_statement, matcher.predicate)
            first == FirstIndex(m_matchers, Matches)
        IN  /\ m_result.err = ""
            /\ m_result.value = IF first = 0 THEN DefaultMatcherValue
                                ELSE ActionOf(m_matchers[first])

\* the index of the matcher the for loop took at nesting level k, 0 when the
\* loop at that level ran to its end
Taken(k) == IF k <= Len(m_path) THEN m_path[k] ELSE 0

\* the rule list the for loop ran over at nesting level k
RECURSIVE LevelMatchers(_)
LevelMatchers(k) ==
    IF k = 1 THEN m_matchers ELSE LevelMatchers(k - 1)[m_path[k - 1]].submatchers

\* the levels at which a for loop ran: one per taken matcher, and the level
\* below the last taken matcher when it has submatchers (or the top level)
Levels ==
    {k \in 1..(Len(m_path) + 1) :
        k = 1 \/ (k <= Len(m_path)) \/ (m_result.err = "")}

\* every loop took the first matcher that Holds and passed over those that do not
LoopsFollow(Holds(_, _)) ==
    \A k \in Levels :
        LET matchers == LevelMatchers(k)
            taken == Taken(k)
        IN  \A i \in 1..Len(matchers) :
                /\ (taken = 0 \/ i < taken) => ~Holds(m_statement, matchers[i].predicate)
                /\ i = taken => Holds(m_statement, matchers[i].predicate)

MccOrDescription(statement, predicate) ==
    \/ statement.mcc \in predicate.mcc
    \/ predicate.description # <<>>
       /\ IsPrefix(predicate.description, statement.description)

MccTimeOrDescription(statement, predicate) ==
    \/ statement.mcc \in predicate.mcc
    \/ \E t \in predicate.from_time : statement.time >= t
    \/ \E t \in predicate.to_time : statement.time <= t
    \/ predicate.description # <<>>
       /\ IsPrefix(predicate.description, statement.description)

\* C2, as claimed: a rule matches a statement if and only if the statement's
\* MCC is in the rule's MCC set or its description matches the rule's regex;
\* nothing else, such as the timestamp, makes a rule match.
C2_MatchesOnMccOrDescriptionOnly ==
    m_pc = "matched" => LoopsFollow(MccOrDescription)

\* C2, amended: a rule matches if and only if the MCC is in its MCC set, or it
\* has a from_time at or before the statement's time, or it has a to_time at
\* or after it, or its description regex matches at the start of the
\* description; an empty field is not checked and a rule with all four fields
\* empty matches nothing.
C2_MatchesOnMccTimeOrDescription ==
    m_pc = "matched" => LoopsFollow(MccTimeOrDescription)

\* C2: a rule was taken for the statement's time alone
C2_TakenForTimeAlone ==
    /\ m_pc = "matched"
    /\ m_result.err = ""
    /\ Taken(1) # 0
    /\ ~MccOrDescription(m_statement, m_matchers[Taken(1)].predicate)
    /\ m_matchers[Taken(1)].predicate.to_time # {}

\* C21: the resolved action takes its fields from exactly one rule: it is the
\* action of one of the rules taken on the way (the defaults when none was
\* taken), with no field added by another rule that matched as well, be it
\* an enclosing rule or a nested sub-rule.
C21_FieldsFromOneRule ==
    (m_pc = "matched" /\ m_result.err = "") =>
        \/ m_path = <<>> /\ m_result.value = DefaultMatcherValue
        \/ \E k \in 1..Len(m_path) :
              m_result.value = ActionOf(LevelMatchers(k)[m_path[k]])

(***************************************************************************)
(* The formatter (SpecFormat).                                             *)
(***************************************************************************)
Ordinary == f_pc = "formatted" /\ f_source = NoStatement
Transfer == f_pc = "formatted" /\ f_source # NoStatement

\* what the matcher engine resolves for the formatted statement
Resolved == match_statement(f_config.matchers, f_statement)

OwnAccountName == get_ledger_account_for_account(f_config, f_statement.account)

DefaultLedgerAccount ==
    <<"Expenses", "Mono2ledger", f_statement.account.id, f_statement.id>>

ResolvedLedgerAccount ==
    IF Resolved.value.ledger_account = NoAccountName THEN DefaultLedgerAccount
    ELSE Resolved.value.ledger_account

\* the transaction block of the formatted statement
Transaction == f_out.blocks[1]

\* C3: when no rule matches, or the matched rule leaves a field unset, the
\* block uses the defaults: the ledger account Expenses:Mono2ledger:<account
\* id>:<statement id>, the raw description as payee, and an empty suffix, so
\* that the other posting is exactly the ledger name of the statement's account.
C3_DefaultsUsed ==
    (Ordinary /\ Resolved.err = "") =>
        /\ f_out.err = ""
        /\ OwnAccountName \in {Transaction.to_account, Transaction.from_account}
        /\ Resolved.value.ledger_account = NoAccountName =>
              DefaultLedgerAccount \in {Transaction.to_account, Transaction.from_account}
        /\ Resolved.value.payee = NoPayee => Transaction.payee = f_statement.description

\* C4: classifying and formatting an ordinary statement never fails, whatever
\* the rule list: it produces a ledger block and no error.
C4_ClassificationNeverFails ==
    Ordinary => (f_out.err = "" /\ Len(f_out.blocks) >= 1)

\* C5: an ordinary block is oriented by the sign of the amount: outgoing, the
\* first posting is the resolved ledger account and the second the statement's
\* own account; incoming, the two are swapped; the printed amount is the
\* absolute value of the amount.
C5_OrientedBySign ==
    (Ordinary /\ Resolved.err = "" /\ f_statement.amount # 0) =>
        /\ f_out.err = ""
        /\ f_statement.amount < 0 =>
              /\ Transaction.to_account = ResolvedLedgerAccount
              /\ Transaction.from_account = OwnAccountName
        /\ f_statement.amount > 0 =>
              /\ Transaction.to_account = OwnAccountName
              /\ Transaction.from_account = ResolvedLedgerAccount
        /\ MinorUnits(Transaction.amount) = Abs(f_statement.amount)

\* C6, as claimed: an emitted transaction has an exchange clause exactly when
\* the statement's transaction currency differs from its account's currency.
C6_ExchangeIffCurrenciesDiffer ==
    (f_pc = "formatted" /\ f_out.err = "") =>
        (Transaction.exchange # <<>>
            <=> f_statement.currency_code # f_statement.account.currency_code)

\* the statement whose conversion the block records
Converted == IF f_source = NoStatement THEN f_statement ELSE f_source

\* C6, amended: an emitted transaction has an exchange clause, and one only,
\* exactly when the amount of the statement whose conversion it records (the
\* source statement of a merged transfer) is not zero and differs from its
\* operation amount; a cashback block has none.
C6_ExchangeIffAmountsDiffer ==
    (f_pc = "formatted" /\ f_out.err = "") =>
        /\ Transaction.exchange # <<>>
              <=> (Converted.amount # 0 /\ Converted.amount # Converted.operation_amount)
        /\ Len(Transaction.exchange) \in {0, 2}
        /\ \A i \in 2..Len(f_out.blocks) : f_out.blocks[i].exchange = <<>>

\* C6: a block with an exchange clause was emitted for a statement whose
\* transaction currency is its account's currency
C6_ExchangeWithEqualCurrencies ==
    /\ f_pc = "formatted"
    /\ f_out.err = ""
    /\ Transaction.exchange # <<>>
    /\ f_statement.currency_code = f_statement.account.currency_code
    /\ f_statement.amount = f_statement.operation_amount

\* C7: an ordinary statement with a conversion prints each amount with its own
\* currency: outgoing, <-operation_amount> <transaction currency> @@ <-amount>
\* <account currency>; incoming, <amount> <account currency> @@
\* <operation_amount> <transaction currency>.
C7_ExchangePairsAmountsWithCurrencies ==
    (/\ Ordinary /\ Resolved.err = ""
     /\ f_statement.currency_code # f_statement.account.currency_code
     /\ f_statement.amount # f_statement.operation_amount
     /\ f_statement.amount * f_statement.operation_amount > 0) =>
        /\ f_out.err = ""
        /\ f_statement.amount < 0 =>
              /\ MinorUnits(Transaction.amount) = -f_statement.operation_amount
              /\ Transaction.currency = alpha_3(f_statement.currency_code)
              /\ Len(Transaction.exchange) = 2
              /\ MinorUnits(Transaction.exchange[1]) = -f_statement.amount
              /\ Transaction.exchange[2] = alpha_3(f_statement.account.currency_code)
        /\ f_statement.amount > 0 =>
              /\ MinorUnits(Transaction.amount) = f_statement.amount
              /\ Transaction.currency = alpha_3(f_statement.account.currency_code)
              /\ Len(Transaction.exchange) = 2
              /\ MinorUnits(Transaction.exchange[1]) = f_statement.operation_amount
              /\ Transaction.exchange[2] = alpha_3(f_statement.currency_code)

\* C20: a statement yields one or two blocks: its transaction and, exactly
\* when record_cashback is enabled and its cashback amount is not zero, a
\* cashback transaction right after it, which has the same date and posts the
\* cashback amount in the account's cashback type to the cashback asset
\* account against the cashback income account.
C20_CashbackEmitted ==
    f_pc = "formatted" =>
        LET wanted == f_config.settings.record_cashback /\ f_statement.cashback_amount # 0
        IN  /\ f_out.err = ""
            /\ Len(f_out.blocks) = IF wanted THEN 2 ELSE 1
            /\ wanted =>
                  LET cashback == f_out.blocks[2] IN
                  /\ cashback.date = f_out.blocks[1].date
                  /\ cashback.payee = f_config.settings.cashback_payee
                  /\ cashback.to_account = f_config.settings.cashback_ledger_asset_account
                  /\ cashback.from_account = f_config.settings.cashback_ledger_income_account
                  /\ MinorUnits(cashback.amount) = f_statement.cashback_amount
                  /\ cashback.currency = f_statement.account.cashback_type

\* C28: sign normalisation never swaps the accounts of a merged transfer:
\* whatever the sign of its amount, its first posting is on the account of the
\* destination statement and its second on the account of the source
\* statement.
C28_TransferAccountsNeverSwapped ==
    Transfer =>
        /\ f_out.err = ""
        /\ Transaction.to_account = OwnAccountName
        /\ Transaction.from_account
              = get_ledger_account_for_account(f_config, f_source.account)

\* a transaction with an exchange clause was emitted
ExchangeEmitted == f_pc = "formatted" /\ f_out.err = "" /\ Transaction.exchange # <<>>

\* C29 as stated: in every emitted exchange clause the counter-amount printed
\* after '@@' has the opposite sign of the primary amount printed before it.
C29_CounterAmountSignNegated ==
    ExchangeEmitted =>
        Transaction.exchange[1].negative # Transaction.amount.negative

\* the primary amount before the sign normalisation (main.py:229, 247)
PrimaryAmount == IF f_source # NoStatement THEN f_statement.amount ELSE -f_statement.amount

\* C29, amended: in every emitted exchange clause the primary amount is
\* printed without a sign, and the counter-amount is the amount of the
\* statement whose conversion is recorded, printed with its sign reversed when
\* the primary amount was not negative and with its own sign when the sign
\* normalisation negated the primary amount.
C29_CounterAmountFollowsSource ==
    ExchangeEmitted =>
        /\ ~Transaction.amount.negative
        /\ MinorUnits(Transaction.amount) = Abs(PrimaryAmount)
        /\ MinorUnits(Transaction.exchange[1])
              = IF PrimaryAmount < 0 THEN Converted.amount ELSE -Converted.amount

\* C29 witness: a transfer arriving with a positive amount from a source
\* statement with a negative amount is printed with both amounts positive,
\* and one leaving with a negative amount has its exchange amount negated
\* along with it
C29_BothAmountsPositive ==
    /\ ExchangeEmitted
    /\ f_source # NoStatement
    /\ f_statement.amount > 0
    /\ f_source.amount < 0
    /\ ~Transaction.amount.negative
    /\ ~Transaction.exchange[1].negative

(***************************************************************************)
(* The merge engine (Spec).                                                *)
(***************************************************************************)
Running == pc \in {"loop", "done", "error"}

\* the fetched statement with this id
Fetched(id) == CHOOSE s \in {fetched[i] : i \in 1..Len(fetched)} : s.id = id

FetchedIds == {fetched[i].id : i \in 1..Len(fetched)}

CrossCardIds == {id \in FetchedIds : is_cross_card_statement(Fetched(id))}

\* the calls made with a source_statement, and those made without
MergedCalls == {k \in 1..Len(calls) : calls[k].source # NoString}
OrdinaryCalls == {k \in 1..Len(calls) : calls[k].source = NoString}

\* start and end are one internal transfer: the only two statements recognised
\* as cross-card, the start leaving its account no later than the end arrives
\* on another, for the same operation amount in the same currency
StartEndPair(start, end) ==
    /\ CrossCardIds = {start.id, end.id}
    /\ start.id # end.id
    /\ start.amount < 0
    /\ end.amount > 0
    /\ start.account # end.account
    /\ start.time <= end.time
    /\ start.operation_amount = -end.operation_amount
    /\ start.currency_code = end.currency_code

\* C8: when the list holds exactly one start/end pair, with unrelated
\* statements anywhere around and between them, the pair is emitted as one
\* merged transfer from the start to the end, and neither statement is
\* emitted on its own.
C8_MergeCompleteness ==
    Running =>
        \A s, e \in FetchedIds :
            StartEndPair(Fetched(s), Fetched(e)) =>
                /\ \A k \in 1..Len(calls) :
                      calls[k].statement \in {s, e} =>
                          (calls[k].statement = e /\ calls[k].source = s)
                /\ pc = "done" => Cardinality(MergedCalls) = 1

\* a merged call whose two statements are recognised as cross-card, one outgoing
\* and the other incoming
IsTransferPair(k) ==
    /\ k \in MergedCalls
    /\ calls[k].statement # calls[k].source
    /\ {calls[k].statement, calls[k].source} \subseteq CrossCardIds
    /\ Fetched(calls[k].statement).amount * Fetched(calls[k].source).amount < 0

\* of the two statements of a merged call, the incoming one is the destination
\* (end) statement and the outgoing one the source (start) statement
EndOf(k) ==
    IF Fetched(calls[k].statement).amount > 0 THEN Fetched(calls[k].statement)
    ELSE Fetched(calls[k].source)

StartOf(k) ==
    IF Fetched(calls[k].statement).amount > 0 THEN Fetched(calls[k].source)
    ELSE Fetched(calls[k].statement)

\* C9: a merged transfer has the transfer payee, its first posting on the
\* account of the destination (end) statement, its second on the account of
\* the source (start) statement, the end statement's amount as primary amount
\* and, when the source statement involved a conversion, an exchange clause of
\* the source statement's amount, sign removed, in the source account's currency.
C9_MergedTransferRendering ==
    Running =>
        \A k \in 1..Len(calls) :
            IsTransferPair(k) =>
                LET end == EndOf(k)
                    start == StartOf(k)
                    block == calls[k].blocks[1]
                IN  /\ calls[k].err = ""
                    /\ block.payee = config.settings.transfer_payee
                    /\ block.to_account = get_ledger_account_for_account(config, end.account)
                    /\ block.from_account
                          = get_ledger_account_for_account(config, start.account)
                    /\ MinorUnits(block.amount) = end.amount
                    /\ start.amount # start.operation_amount =>
                          /\ Len(block.exchange) = 2
                          /\ MinorUnits(block.exchange[1]) = Abs(start.amount)
                          /\ block.exchange[2] = alpha_3(start.account.currency_code)

\* C10: a statement that is not recognised as an internal cross-card transfer
\* is never consumed by another statement's merge, and a run that completes
\* has emitted it as its own ordinary transaction exactly once.
C10_NoEntryLost ==
    Running =>
        \A id \in FetchedIds \ CrossCardIds :
            /\ \A k \in 1..Len(calls) :
                  /\ calls[k].source # id
                  /\ \A j \in 1..Len(calls[k].consumed) : calls[k].consumed[j] # id
            /\ pc = "done" =>
                  Cardinality({k \in OrdinaryCalls : calls[k].statement = id}) = 1

\* C18: in every state of a run, completed, interrupted or failed, either
\* nothing has been printed or the blocks of all statements have: every
\* built entry is printed, every statement that is not an internal
\* cross-card transfer has its own transaction among them, and every
\* cross-card statement is part of a printed transfer.
C18_AllOrNothing ==
    stdout # <<>> =>
        /\ index >= Len(statements)
        /\ stdout = Reverse(ledger_entries)
        /\ \A k \in 1..Len(calls) : calls[k].err = ""
        /\ \A id \in FetchedIds \ CrossCardIds :
              \E k \in OrdinaryCalls : calls[k].statement = id
        /\ \A id \in CrossCardIds :
              \E k \in MergedCalls :
                  \/ calls[k].statement = id
                  \/ calls[k].source = id
                  \/ \E j \in 1..Len(calls[k].consumed) : calls[k].consumed[j] = id

\* the blocks of the calls in the order of the output: from the last call to
\* the first, each call's blocks in the order format_ledger_transaction
\* yielded them
RECURSIVE OutputOf(_)
OutputOf(cs) ==
    IF cs = <<>> THEN <<>>
    ELSE cs[Len(cs)].blocks \o OutputOf(SubSeq(cs, 1, Len(cs) - 1))

\* the orders in which the statements of a list can be delivered
Orders(lst) ==
    {[i \in 1..Len(lst) |-> lst[order[i]]] :
        order \in {o \in [1..Len(lst) -> 1..Len(lst)] :
                      \A i, j \in 1..Len(lst) : o[i] = o[j] => i = j}}

\* what _main prints for the statements delivered in this order, <<"error">>
\* when it prints nothing because a call raises
RunOutput(lst) ==
    LET run == create_ledger_entries(config, sorted_reverse(lst), 0, <<>>, <<>>) IN
    IF run.err # "" THEN <<"error">> ELSE Reverse(run.entries)

\* the time at which the transaction of a call is placed: the time of the
\* destination statement for a transfer pair, of the statement otherwise
TimeOf(k) == IF IsTransferPair(k) THEN EndOf(k).time ELSE Fetched(calls[k].statement).time

\* C26: the transactions of the final output are in ascending order of their
\* statements' timestamps, a merged transfer at the time of its destination
\* statement, and the output is the same for every order in which the
\* statements are delivered.
C26_OutputOrderIndependent ==
    pc = "done" =>
        /\ stdout = OutputOf(calls)
        /\ \A k \in 1..(Len(calls) - 1) : TimeOf(k) >= TimeOf(k + 1)
        /\ \A other \in Orders(fetched) : RunOutput(other) = stdout

\* C27: every merged transfer is built from two distinct statements: no call
\* of format_ledger_transaction has one statement as both its destination and
\* its source.
C27_TransferHasTwoStatements ==
    \A k \in MergedCalls : calls[k].source # calls[k].statement

(***************************************************************************)
(* The checkpoint scanner (SpecScan).                                      *)
(***************************************************************************)
\* line k lies in a comment block: a "comment" line at or before it is not
\* followed, up to line k, by an "end comment" line
InsideBlock(file, k) ==
    \E j \in 1..k :
        /\ file[j] = CommentLine
        /\ \A i \in (j + 1)..k : file[i] # EndCommentLine

\* line k starts, after optional blanks, with a comment character
StartsWithMarker(file, k) ==
    \E j \in 1..Len(file[k]) :
        /\ file[k][j].t \in {";", "#", "*"}
        /\ \A i \in 1..(j - 1) : file[k][i].t = " "

HasDate(file, k) == \E j \in 1..Len(file[k]) : IsDateText(file[k][j])

\* the first date text of line k
LineDate(file, k) ==
    file[k][CHOOSE j \in 1..Len(file[k]) :
                /\ IsDateText(file[k][j])
                /\ \A i \in 1..(j - 1) : ~IsDateText(file[k][i])]

\* the dated lines that are neither in a comment block nor comment lines
Included(file) ==
    {k \in 1..Len(file) :
        HasDate(file, k) /\ ~InsideBlock(file, k) /\ ~StartsWithMarker(file, k)}

Last(S) == CHOOSE k \in S : \A j \in S : j <= k

Earlier(d, e) == d.month < e.month \/ (d.month = e.month /\ d.day < e.day)

\* the dates of the included lines ascend strictly in file order
Chronological(file) ==
    \A j, k \in Included(file) : j < k => Earlier(LineDate(file, j), LineDate(file, k))

\* the text is a date of the calendar written in the configured format
Parsable(text, date_format) ==
    /\ text.t = (IF date_format = "%Y/%m/%d" THEN "date/" ELSE "date-")
    /\ text.month \in 1..12
    /\ text.day \in 1..DaysInMonth[text.month]

Midnight(text) == Ordinal(text.month, text.day) * DayLength

\* C11: on a chronological file whose dates are written in the configured
\* format, get_last_transaction_date returns the latest date of the file, which
\* is the date of its last dated non-comment line; on a file without such a
\* line it returns the default unchanged.
C11_CheckpointResume ==
    s_pc # "call" =>
        /\ Included(s_file) = {} => s_pc = "returned" /\ s_return.value = s_default
        /\ (/\ Included(s_file) # {}
            /\ Chronological(s_file)
            /\ \A k \in Included(s_file) : Parsable(LineDate(s_file, k), s_format)) =>
              /\ s_pc = "returned"
              /\ s_return.value = Midnight(LineDate(s_file, Last(Included(s_file))))
              /\ \A k \in Included(s_file) :
                    Midnight(LineDate(s_file, k)) <= s_return.value

\* C11 witness: three dated lines D1 < D2 < D3 were scanned and D3 returned
C11_ThreeDatesScanned ==
    /\ s_pc = "returned"
    /\ Chronological(s_file)
    /\ Cardinality(Included(s_file)) = 3
    /\ s_return.value = Midnight(LineDate(s_file, Last(Included(s_file))))
    /\ s_return.value # s_default

\* C12: the checkpoint is never taken from an excluded line.  Whatever dates
\* the lines inside comment blocks and the comment lines carry, the call
\* returns the date of the last line outside them (lines after an "end
\* comment" line included), the default when there is no such line, and it
\* exits only when the date of that line cannot be parsed.
C12_ExcludedLinesNeverReturned ==
    LET included == Included(s_file) IN
    /\ s_pc = "returned" =>
          IF included = {} THEN s_return.value = s_default
          ELSE /\ Parsable(LineDate(s_file, Last(included)), s_format)
               /\ s_return.value = Midnight(LineDate(s_file, Last(included)))
    /\ s_pc = "exit" =>
          /\ included # {}
          /\ ~Parsable(LineDate(s_file, Last(included)), s_format)

\* C12 witness: a dated line inside a comment block, the block closed, a dated
\* line after it, a dated comment line last; the date after the block returned
C12_DatesInCommentsSkipped ==
    /\ s_pc = "returned"
    /\ \E k \in 1..Len(s_file) :
          /\ HasDate(s_file, k) /\ InsideBlock(s_file, k)
          /\ \E l \in Included(s_file) : l > k /\ s_file[l - 1] = EndCommentLine

(***************************************************************************)
(* The fetch window scheduler (SpecFetch).                                 *)
(***************************************************************************)
\* the requests for statements, by their position in the log
StatementRequests == {k \in 1..Len(q_log) : q_log[k].interval # <<>>}

Span(interval) == interval[2] - interval[1]

\* C14: every interval requested from the API spans at most 31 days, and a
\* run in which every request succeeds with an untruncated response issues
\* exactly one request for each (account, interval) pair of the partition of
\* [T0, T1].
C14_IntervalsAtMost31Days ==
    /\ \A k \in StatementRequests : Span(q_log[k].interval) <= 31 * DayTicks
    /\ (q_pc = "done" /\ \A k \in StatementRequests : q_log[k].outcome = "items") =>
          \A a \in 1..Len(accounts) :
              \A interval \in {q_log[k].interval : k \in StatementRequests} :
                  Cardinality({k \in StatementRequests :
                                  /\ q_log[k].account = accounts[a].id
                                  /\ q_log[k].interval = interval}) = 1

\* C15: after a 429 the scheduler retries the same interval, and only that
\* interval, for the accounts; the run then goes on with the remaining
\* combinations: it does not fail, and no response is yielded a second time or
\* for another account than the one it was requested for.
C15_RateLimitRetriesSameInterval ==
    /\ \A k, j \in StatementRequests :
          (q_log[k].outcome = "429" /\ q_log[j].cause = Cause("retry", k, q_log[k].interval))
              => q_log[j].interval = q_log[k].interval
    /\ q_pc = "raised" => q_log[1].outcome # "accounts"
    /\ \A y \in 1..Len(q_yielded) :
          /\ q_yielded[y].account = q_log[q_yielded[y].request].account
          /\ \A z \in 1..Len(q_yielded) :
                q_yielded[z].request = q_yielded[y].request => z = y

\* C16: a response of 500 items or more for [a, b] yields none of its items,
\* and the requests made in its place are for intervals inside [a, b] that
\* are strictly shorter than [a, b], the first of them starting at a and the
\* last ending at b.
C16_TruncatedResponseHalved ==
    \A k \in StatementRequests :
        q_log[k].outcome = "truncated" =>
            /\ \A y \in 1..Len(q_yielded) : q_yielded[y].request # k
            /\ \A j \in StatementRequests :
                  (q_log[j].cause.kind = "halving" /\ q_log[j].cause.request = k) =>
                      /\ q_log[j].cause.interval[1] <= q_log[j].interval[1]
                      /\ q_log[j].interval[2] <= q_log[j].cause.interval[2]
                      /\ Span(q_log[j].interval) < Span(q_log[j].cause.interval)

\* C17: a response with an error status other than 429 ends the run with exit
\* status 1: the failed request is the last request of the run, it is not
\* retried, and nothing is printed, whatever was fetched before.
C17_FatalOnOtherStatus ==
    \A k \in 1..Len(q_log) :
        q_log[k].outcome = "500" =>
            /\ k = Len(q_log)
            /\ q_pc \in {"exit", "raised"}
            /\ q_exit = 1
            /\ ~q_printed

\* C17 witness: the run was aborted after statements had been fetched
C17_AbortedAfterFetching ==
    /\ q_pc = "exit"
    /\ q_log[Len(q_log)].outcome = "500"
    /\ q_yielded # <<>>

\* the (account, interval) pair a yielded response was requested for
PairOf(y) == [account |-> q_log[q_yielded[y].request].account,
              interval |-> q_log[q_yielded[y].request].interval]

\* how often the response for a pair has been yielded
TimesYielded(pair) == Cardinality({y \in 1..Len(q_yielded) : PairOf(y) = pair})

\* no request of the run failed but with a 429, and none was truncated
OnlyRateLimited ==
    /\ q_log # <<>>
    /\ q_log[1].outcome = "accounts"
    /\ \A k \in StatementRequests : q_log[k].outcome \in {"items", "429"}

\* C22: rate limiting is recovered. A run in which every response but the
\* 429 ones succeeds raises no error, yields the response of no (account,
\* interval) pair twice, and once fetch_statements has ended it has yielded
\* the response of every pair of the partition of [T0, T1] exactly once.
C22_RateLimitRecovered ==
    OnlyRateLimited =>
        /\ q_pc # "raised"
        /\ \A y \in 1..Len(q_yielded) : TimesYielded(PairOf(y)) = 1
        /\ q_pc \in {"fetched", "done"} =>
              \A c \in 1..Len(Product(accounts, date_range(q_from, Now))) :
                  TimesYielded(Product(accounts, date_range(q_from, Now))[c]) = 1

\* C23: the intervals date_range produces for a call of fetch_statements walk
\* forward from its from_time: the first starts there, each next one starts
\* where the previous one ends, the last one ends at its to_time, and no two
\* requests of the call for one account overlap in more than an endpoint.
C23_IntervalsWalkForward ==
    /\ \A f \in 1..(IF q_pc = "statements" THEN Len(q_stack) ELSE 0) :
          LET intervals == date_range(q_stack[f].from_time, q_stack[f].to_time) IN
          /\ intervals[1][1] = q_stack[f].from_time
          /\ intervals[Len(intervals)][2] = q_stack[f].to_time
          /\ \A k \in 1..(Len(intervals) - 1) : intervals[k + 1][1] = intervals[k][2]
    /\ \A k, j \in StatementRequests :
          (/\ k < j
           /\ q_log[k].cause.kind = "main" /\ q_log[j].cause.kind = "main"
           /\ q_log[k].account = q_log[j].account) =>
              \/ q_log[k].interval[2] <= q_log[j].interval[1]
              \/ q_log[j].interval[2] <= q_log[k].interval[1]

\* C24: along every chain of recursive calls made for a response of 500
\* items or more the requested interval gets strictly shorter (so that the
\* recursion ends once the intervals are short enough): the call made for the
\* halving of [a, b] is for an interval shorter than [a, b].
C24_HalvingShortens ==
    \A f \in 1..(IF q_pc = "statements" THEN Len(q_stack) ELSE 0) :
        q_stack[f].cause.kind = "halving" =>
            /\ q_stack[f].from_time < q_stack[f].to_time
            /\ q_stack[f].to_time - q_stack[f].from_time < Span(q_stack[f].cause.interval)

\* the run slept for the given time at the given line when k requests had
\* been made
Slept(k, line, seconds) ==
    \E i \in 1..Len(q_sleeps) : q_sleeps[i] = [seconds |-> seconds, line |-> line, after |-> k]

\* C25 as stated: the run sleeps only on the rate-limit backoff; every sleep
\* directly follows a 429 response, so that a run without a 429 does not
\* sleep between its requests.
C25_SleepOnlyAfter429 ==
    \A i \in 1..Len(q_sleeps) :
        /\ q_sleeps[i].line = 177
        /\ q_log[q_sleeps[i].after].outcome = "429"

\* C25, amended: the run sleeps 60 seconds after every response to a request
\* for statements but the fatal one: before the retry after a 429, and after
\* a response that was fetched, truncated or not, before anything else is
\* requested. Every sleep lasts 60 seconds and follows a request for
\* statements.
C25_SleepAfterEveryResponse ==
    /\ \A k \in StatementRequests :
          /\ q_log[k].outcome = "429" => Slept(k, 177, 60)
          /\ q_log[k].outcome \in {"items", "truncated"} => Slept(k, 195, 60)
    /\ \A i \in 1..Len(q_sleeps) :
          /\ q_sleeps[i].seconds = 60
          /\ q_sleeps[i].after \in StatementRequests
          /\ q_log[q_sleeps[i].after].outcome # "500"

\* C25 witness: a run in which no request was rate-limited has ended, and it
\* slept after each of its requests for statements
C25_SleptWithoutRateLimit ==
    /\ q_pc = "done"
    /\ \A k \in 1..Len(q_log) : q_log[k].outcome # "429"
    /\ Cardinality(StatementRequests) >= 2
    /\ Len(q_sleeps) = Cardinality(StatementRequests)

(***************************************************************************)
(* The runs of _main (SpecImport).                                         *)
(***************************************************************************)
\* the date text the scan of the ledger file ends with cannot be parsed
CheckpointUnparsable ==
    LET result == ScanFile(r_file) IN
    result # NoResult /\ ~Parsable(result[1], r_format)

\* C13: when the last matching date text of the ledger file cannot be parsed
\* with the configured date format, the run exits with status 1: it takes no
\* start date, the default included, sends no request and prints nothing.
\* A run exits at the scan for no other reason.
C13_CheckpointParseErrorFatal ==
    /\ CheckpointUnparsable =>
          /\ r_pc \in {"scan", "exit"}
          /\ r_from = -1
          /\ r_requests = <<>>
          /\ r_stdout = <<>>
    /\ r_pc = "exit" => CheckpointUnparsable /\ r_exit = 1

\* C13 witness: a run has exited at the scan although the bank held statements
C13_ExitedAtScan ==
    /\ r_pc = "exit"
    /\ r_exit = 1
    /\ r_bank # <<>>

\* the statements for which run 2 has emitted a transaction
EmittedAgain ==
    {id \in r_recorded :
        \E k \in 1..Len(r_built.calls) :
            r_built.calls[k].statement = id \/ r_built.calls[k].source = id}

\* C19: the second run's fetch window starts at the checkpoint, the last date
\* of the ledger file that holds the first run's output, and the second run
\* emits no transaction for a statement the first run recorded.
C19_IncrementalImportIdempotent ==
    (r_run = 2 /\ r_pc \in {"built", "done"}) =>
        /\ Included(r_file) # {} =>
              r_from = Midnight(LineDate(r_file, Last(Included(r_file))))
        /\ EmittedAgain = {}

====
